---- MODULE Spec2Model ----
(***************************************************************************)
(* MemoryTokenStore (src/src/index.ts): an in-memory key -> token store    *)
(* whose records carry a deadline, reclaimed by one-shot timers that are   *)
(* scheduled in segments of at most MAX_TIMEOUT_MS.                        *)
(*                                                                         *)
(* The model follows the single-threaded event loop of the code: every     *)
(* synchronous stretch of a method is one action and reads the clock once. *)
(* keys() is the only method that suspends between two mutations of the    *)
(* store (it awaits inside its loop), so it is modelled in several steps;  *)
(* timer callbacks are macrotasks and run only when no scan is suspended.  *)
(* Time is in milliseconds.  MAX_TIMEOUT_MS stands for 0x7fffffff: the     *)
(* model scales it down so that lifetimes longer than one timer segment    *)
(* fit the bounded clock.  Timer handles are opaque: states are kept with   *)
(* the handles named after the position of their key in this.map.          *)
(***************************************************************************)
EXTENDS Integers, Sequences, FiniteSets, TLC

VARIABLES
    map,        \* this.map: key -> TokenRecord
    order,      \* insertion order of this.map (a JS Map iterates in it)
    timers,     \* this.timers: key -> timer handle
    pending,    \* the runtime's timer queue: handle -> [key, due, hasRef]
    now,        \* Date.now()
    maxSize,    \* this.options.maxSize
    defaultTtl, \* this.options.defaultTtl
    scan,       \* the suspended keys() call, if any
    segments    \* not a field of the store: for each key that has a timer,
                \* how many timers were scheduled for it since the last set
                \* or updateTtl of the key, and the lifetime that call gave

vars == <<map, order, timers, pending, now, maxSize, defaultTtl, scan, segments>>

----------------------------------------------------------------------------
\* Bounds of the model

Keys == {"k1", "k2"}
Tokens == {"a", "bb"}
\* ttlSeconds arguments offered to set and updateTtl
TtlArgs == {-1, 0, 1, 2}
\* the optional ttlSeconds of set: <<>> when omitted, <<t>> when given
Omitted == <<>>
SetTtlArgs == {Omitted} \cup {<<t>> : t \in TtlArgs}
\* the clock never passes MaxNow
MaxNow == 2000
\* the options the stores are constructed with (defaultTtl 0: not given)
StoreOptions == {[maxSize |-> 1, defaultTtl |-> 0],
                 [maxSize |-> 2, defaultTtl |-> 1]}
\* stand-in for 0x7fffffff (index.ts line 66), scaled to the bounded clock
MAX_TIMEOUT_MS == 1500

MS_PER_SECOND == 1000
DEFAULT_TTL == 3600

----------------------------------------------------------------------------
\* Maps as partial functions

Put(f, k, v) == [x \in DOMAIN f \cup {k} |-> IF x = k THEN v ELSE f[x]]
Remove(f, k) == [x \in DOMAIN f \ {k} |-> f[x]]
Range(f) == {f[x] : x \in DOMAIN f}
Empty == [x \in {} |-> 0]
Min(a, b) == IF a <= b THEN a ELSE b
Max(a, b) == IF a >= b THEN a ELSE b
Without(s, k) == LET keep(x) == x # k IN SelectSeq(s, keep)
IndexOf(s, k) == IF \E i \in 1..Len(s) : s[i] = k
                 THEN CHOOSE i \in 1..Len(s) : s[i] = k
                 ELSE 0

\* Results handed to the caller
Null == [kind |-> "null"]
Void == [kind |-> "void"]
Thrown == [kind |-> "throw"]
Str(s) == [kind |-> "string", s |-> s]
Bool(b) == [kind |-> "boolean", b |-> b]
Num(n) == [kind |-> "number", n |-> n]
Meta(e, c) == [kind |-> "metadata", expiresAt |-> e, createdAt |-> c]
KeyList(ks) == [kind |-> "keys", ks |-> ks]

TokenRecord(token, expiresAt, createdAt) ==
    [token |-> token, expiresAt |-> expiresAt, createdAt |-> createdAt]

\* scan when no keys() call is suspended.  atCall is the list of keys whose
\* record was live when the suspended keys() was called.
NoScan == [active |-> FALSE, now |-> 0, cursor |-> 0, validKeys |-> <<>>,
           atCall |-> <<>>]

----------------------------------------------------------------------------
\* The store's two mappings, the timer queue and the cursor of a suspended
\* scan, as one value that the methods transform.

Store == [map |-> map, order |-> order, timers |-> timers,
          pending |-> pending, cursor |-> scan.cursor]

\* Map.prototype.delete on this.map: entries before a live iterator's
\* position that are removed do not move the iterator over the others.
mapDelete(st, key) ==
    IF key \notin DOMAIN st.map THEN st
    ELSE [st EXCEPT !.map = Remove(@, key),
                    !.order = Without(@, key),
                    !.cursor = IF IndexOf(st.order, key) <= @ THEN @ - 1 ELSE @]

\* A set that keeps the entry a key already has
mapSet_ifAbsent(st, key, rec) ==
    IF key \in DOMAIN st.map THEN st
    ELSE [st EXCEPT !.map = Put(@, key, rec), !.order = Append(@, key)]

\* Map.prototype.set on this.map: a new key is appended, an existing key
\* keeps its place.
mapSet(st, key, rec) ==
    [st EXCEPT !.map = Put(@, key, rec),
               !.order = IF key \in DOMAIN st.map THEN @ ELSE Append(@, key)]

clearTimeout(st, h) == [st EXCEPT !.pending = Remove(@, h)]

\* A handle the runtime has not handed out among those still referenced
NewHandle(st) ==
    LET used == DOMAIN st.pending \cup Range(st.timers)
    IN CHOOSE h \in 1..(Cardinality(used) + 1) : h \notin used

\* setTimeout(callback, delay): the callback closes over key; the timer is
\* due delay ms after t and, as every new timer, holds the process open.
setTimeout(st, h, key, delay, t) ==
    [st EXCEPT !.pending = Put(@, h, [key |-> key, due |-> t + delay,
                                      hasRef |-> TRUE])]

\* A runtime whose timers cannot be unref'ed
unref_unsupported(st, h) == st

\* t.unref(): the timer no longer holds the process open
unref(st, h) == [st EXCEPT !.pending[h].hasRef = FALSE]

\* The remaining time handed to setTimeout as it is
Delay_uncapped(remaining) == remaining

\* Segments of half the maximum
Delay_short(remaining) == Min(remaining, MAX_TIMEOUT_MS \div 2)

\* Math.min(remaining, MAX_TIMEOUT_MS)
Delay(remaining) == Min(remaining, MAX_TIMEOUT_MS)

\* scheduleExpiry without the clearTimeout of the key's previous timer
scheduleExpiry_noCancel(st, key, expiresAt, t) ==
    LET remaining == expiresAt - t
    IN IF remaining <= 0
       THEN LET s2 == mapDelete(st, key)
            IN [s2 EXCEPT !.timers = Remove(@, key)]
       ELSE LET h == NewHandle(st)
                s2 == setTimeout(st, h, key, Delay(remaining), t)
                s3 == unref(s2, h)
            IN [s3 EXCEPT !.timers = Put(@, key, h)]

\* scheduleExpiry cancelling the previous timer only when it schedules a
\* new one: a deadline already passed removes the record and the handle and
\* leaves the previous timer pending
scheduleExpiry_lateCancel(st, key, expiresAt, t) ==
    LET remaining == expiresAt - t
    IN IF remaining <= 0
       THEN LET s2 == mapDelete(st, key)
            IN [s2 EXCEPT !.timers = Remove(@, key)]
       ELSE LET s1 == IF key \in DOMAIN st.timers
                      THEN clearTimeout(st, st.timers[key])
                      ELSE st
                h == NewHandle(s1)
                s2 == setTimeout(s1, h, key, Delay(remaining), t)
                s3 == unref(s2, h)
            IN [s3 EXCEPT !.timers = Put(@, key, h)]

\* scheduleExpiry(key, expiresAt), run at time t
scheduleExpiry(st, key, expiresAt, t) ==
    LET s1 == IF key \in DOMAIN st.timers
              THEN clearTimeout(st, st.timers[key])
              ELSE st
        remaining == expiresAt - t
    IN IF remaining <= 0
       THEN LET s2 == mapDelete(s1, key)
            IN [s2 EXCEPT !.timers = Remove(@, key)]
       ELSE LET h == NewHandle(s1)
                s2 == setTimeout(s1, h, key, Delay(remaining), t)
                s3 == unref(s2, h)
            IN [s3 EXCEPT !.timers = Put(@, key, h)]

\* The callback without its last branch: a segment that ends before the
\* deadline schedules no next segment
timerCallback_oneSegment(st, h, t) ==
    LET key == st.pending[h].key
        s1 == clearTimeout(st, h)
    IN IF key \notin DOMAIN s1.map
       THEN [s1 EXCEPT !.timers = Remove(@, key)]
       ELSE IF s1.map[key].expiresAt <= t
            THEN LET s2 == mapDelete(s1, key)
                 IN [s2 EXCEPT !.timers = Remove(@, key)]
            ELSE s1

\* The callback trusting its timer: it removes the record without reading
\* the record's expiresAt again
timerCallback_trusting(st, h, t) ==
    LET key == st.pending[h].key
        s1 == clearTimeout(st, h)
        s2 == mapDelete(s1, key)
    IN [s2 EXCEPT !.timers = Remove(@, key)]

\* The callback scheduleExpiry hands to setTimeout, run at time t for the
\* timer h that has just fired (a fired timer has left the queue).
timerCallback(st, h, t) ==
    LET key == st.pending[h].key
        s1 == clearTimeout(st, h)
    IN IF key \notin DOMAIN s1.map
       THEN [s1 EXCEPT !.timers = Remove(@, key)]
       ELSE IF s1.map[key].expiresAt <= t
            THEN LET s2 == mapDelete(s1, key)
                 IN [s2 EXCEPT !.timers = Remove(@, key)]
            ELSE scheduleExpiry(s1, key, s1.map[key].expiresAt, t)

\* What a call leaves and returns: the store after it and the result the
\* caller receives.
Outcome(st, ret) == [st |-> st, ret |-> ret]

\* delete that cancels the timer and keeps its handle in this.timers
delete_keepsHandle(st, key) ==
    LET existed == key \in DOMAIN st.map
        s1 == mapDelete(st, key)
    IN IF key \in DOMAIN s1.timers
       THEN Outcome(clearTimeout(s1, s1.timers[key]), Bool(existed))
       ELSE Outcome(s1, Bool(existed))

\* delete that drops the handle from this.timers without cancelling it
delete_noCancel(st, key) ==
    LET existed == key \in DOMAIN st.map
        s1 == mapDelete(st, key)
    IN Outcome([s1 EXCEPT !.timers = Remove(@, key)], Bool(existed))

\* delete reading this.map.has(key) after the record is removed
delete_lateCheck(st, key) ==
    LET s1 == mapDelete(st, key)
        existed == key \in DOMAIN s1.map
    IN IF key \in DOMAIN s1.timers
       THEN LET s2 == clearTimeout(s1, s1.timers[key])
            IN Outcome([s2 EXCEPT !.timers = Remove(@, key)], Bool(existed))
       ELSE Outcome(s1, Bool(existed))

\* delete(key)
delete(st, key) ==
    LET existed == key \in DOMAIN st.map
        s1 == mapDelete(st, key)
    IN IF key \in DOMAIN s1.timers
       THEN LET s2 == clearTimeout(s1, s1.timers[key])
            IN Outcome([s2 EXCEPT !.timers = Remove(@, key)], Bool(existed))
       ELSE Outcome(s1, Bool(existed))

\* The size limit check with > for >=
SizeLimitExceeded_offByOne(st, key) ==
    key \notin DOMAIN st.map /\ Cardinality(DOMAIN st.map) > maxSize

\* The size limit check without the test for an existing key
SizeLimitExceeded_anyKey(st, key) ==
    Cardinality(DOMAIN st.map) >= maxSize

\* The size limit check of set
SizeLimitExceeded(st, key) ==
    key \notin DOMAIN st.map /\ Cardinality(DOMAIN st.map) >= maxSize

\* ttlSeconds || this.options.defaultTtl: a lifetime of 0 counts as none
TtlOf_falsy(ttlSeconds) ==
    IF ttlSeconds = Omitted \/ ttlSeconds = <<0>> THEN defaultTtl
    ELSE ttlSeconds[1]

\* ttlSeconds ?? this.options.defaultTtl
TtlOf(ttlSeconds) == IF ttlSeconds = Omitted THEN defaultTtl ELSE ttlSeconds[1]

\* now + ttl * 1000
ExpiresAt(t, ttl) == t + ttl * MS_PER_SECOND

\* set that writes the record and leaves the scheduling of its timer to a
\* later step
set_unscheduled(st, key, token, ttlSeconds, t) ==
    LET expiresAt == ExpiresAt(t, TtlOf(ttlSeconds))
    IN IF SizeLimitExceeded(st, key)
       THEN Outcome(st, Thrown)
       ELSE Outcome(mapSet(st, key, TokenRecord(token, expiresAt, t)), Void)

\* set that keeps the createdAt of the record it replaces
set_keepsCreatedAt(st, key, token, ttlSeconds, t) ==
    LET expiresAt == ExpiresAt(t, TtlOf(ttlSeconds))
        createdAt == IF key \in DOMAIN st.map THEN st.map[key].createdAt ELSE t
    IN IF SizeLimitExceeded(st, key)
       THEN Outcome(st, Thrown)
       ELSE LET s1 == mapSet(st, key, TokenRecord(token, expiresAt, createdAt))
            IN Outcome(scheduleExpiry(s1, key, expiresAt, t), Void)

\* set that writes the record before it checks the size limit
set_writesFirst(st, key, token, ttlSeconds, t) ==
    LET expiresAt == ExpiresAt(t, TtlOf(ttlSeconds))
        s1 == mapSet(st, key, TokenRecord(token, expiresAt, t))
    IN IF SizeLimitExceeded(st, key)
       THEN Outcome(s1, Thrown)
       ELSE Outcome(scheduleExpiry(s1, key, expiresAt, t), Void)

\* set that makes room in a full store by removing the oldest entry
set_evictsOldest(st, key, token, ttlSeconds, t) ==
    LET expiresAt == ExpiresAt(t, TtlOf(ttlSeconds))
        s0 == IF SizeLimitExceeded(st, key) /\ st.order # <<>>
              THEN delete(st, st.order[1]).st
              ELSE st
        s1 == mapSet(s0, key, TokenRecord(token, expiresAt, t))
    IN Outcome(scheduleExpiry(s1, key, expiresAt, t), Void)

\* set(key, token, ttlSeconds) at time t
set(st, key, token, ttlSeconds, t) ==
    LET expiresAt == ExpiresAt(t, TtlOf(ttlSeconds))
    IN IF SizeLimitExceeded(st, key)
       THEN Outcome(st, Thrown)
       ELSE LET s1 == mapSet(st, key, TokenRecord(token, expiresAt, t))
            IN Outcome(scheduleExpiry(s1, key, expiresAt, t), Void)

\* get with the deadline itself still counted as live (< for <=)
get_lateByOne(st, key, t) ==
    IF key \notin DOMAIN st.map THEN Outcome(st, Null)
    ELSE IF st.map[key].expiresAt < t
         THEN Outcome(delete(st, key).st, Null)
         ELSE Outcome(st, Str(st.map[key].token))

\* get that renews the lifetime of the record it reads
get_sliding(st, key, t) ==
    IF key \notin DOMAIN st.map THEN Outcome(st, Null)
    ELSE IF st.map[key].expiresAt <= t
         THEN Outcome(delete(st, key).st, Null)
         ELSE LET expiresAt == ExpiresAt(t, defaultTtl)
                  s1 == mapSet(st, key, [st.map[key] EXCEPT !.expiresAt = expiresAt])
              IN Outcome(scheduleExpiry(s1, key, expiresAt, t),
                         Str(st.map[key].token))

\* get(key) at time t
get(st, key, t) ==
    IF key \notin DOMAIN st.map THEN Outcome(st, Null)
    ELSE IF st.map[key].expiresAt <= t
         THEN Outcome(delete(st, key).st, Null)
         ELSE Outcome(st, Str(st.map[key].token))

\* has with the deadline itself still counted as live (< for <=)
has_lateByOne(st, key, t) ==
    IF key \notin DOMAIN st.map THEN Outcome(st, Bool(FALSE))
    ELSE IF st.map[key].expiresAt < t
         THEN Outcome(delete(st, key).st, Bool(FALSE))
         ELSE Outcome(st, Bool(TRUE))

\* has(key) at time t
has(st, key, t) ==
    IF key \notin DOMAIN st.map THEN Outcome(st, Bool(FALSE))
    ELSE IF st.map[key].expiresAt <= t
         THEN Outcome(delete(st, key).st, Bool(FALSE))
         ELSE Outcome(st, Bool(TRUE))

\* getMetadata(key) at time t
getMetadata(st, key, t) ==
    IF key \notin DOMAIN st.map THEN Outcome(st, Null)
    ELSE IF st.map[key].expiresAt <= t
         THEN Outcome(delete(st, key).st, Null)
         ELSE Outcome(st, Meta(st.map[key].expiresAt, st.map[key].createdAt))

\* Math.floor for Math.ceil
CeilSeconds_floor(remaining) == remaining \div MS_PER_SECOND

\* Math.ceil(remaining / 1000) for remaining > 0
CeilSeconds(remaining) == (remaining + MS_PER_SECOND - 1) \div MS_PER_SECOND

\* getTtl(key) at time t
getTtl(st, key, t) ==
    IF key \notin DOMAIN st.map THEN Outcome(st, Null)
    ELSE LET remaining == Max(0, st.map[key].expiresAt - t)
         IN IF remaining = 0
            THEN Outcome(delete(st, key).st, Null)
            ELSE Outcome(st, Num(CeilSeconds(remaining)))

\* updateTtl writing a fresh record, as set does (createdAt is not kept)
updateTtl_freshRecord(st, key, ttlSeconds, t) ==
    IF key \notin DOMAIN st.map THEN Outcome(st, Bool(FALSE))
    ELSE LET newExpiresAt == ExpiresAt(t, ttlSeconds)
             updatedRecord == TokenRecord(st.map[key].token, newExpiresAt, t)
             s1 == mapSet(st, key, updatedRecord)
         IN Outcome(scheduleExpiry(s1, key, newExpiresAt, t), Bool(TRUE))

\* updateTtl writing the record whether or not the key has one
updateTtl_upsert(st, key, ttlSeconds, t) ==
    LET newExpiresAt == ExpiresAt(t, ttlSeconds)
        updatedRecord == IF key \in DOMAIN st.map
                         THEN [st.map[key] EXCEPT !.expiresAt = newExpiresAt]
                         ELSE TokenRecord("", newExpiresAt, t)
        s1 == mapSet(st, key, updatedRecord)
    IN Outcome(scheduleExpiry(s1, key, newExpiresAt, t),
               Bool(key \in DOMAIN st.map))

\* updateTtl that only ever moves the deadline later
updateTtl_onlyExtends(st, key, ttlSeconds, t) ==
    IF key \notin DOMAIN st.map THEN Outcome(st, Bool(FALSE))
    ELSE LET newExpiresAt == Max(st.map[key].expiresAt, ExpiresAt(t, ttlSeconds))
             updatedRecord == [st.map[key] EXCEPT !.expiresAt = newExpiresAt]
             s1 == mapSet(st, key, updatedRecord)
         IN Outcome(scheduleExpiry(s1, key, newExpiresAt, t), Bool(TRUE))

\* updateTtl(key, ttlSeconds) at time t
updateTtl(st, key, ttlSeconds, t) ==
    IF key \notin DOMAIN st.map THEN Outcome(st, Bool(FALSE))
    ELSE LET newExpiresAt == ExpiresAt(t, ttlSeconds)
             updatedRecord == [st.map[key] EXCEPT !.expiresAt = newExpiresAt]
             s1 == mapSet(st, key, updatedRecord)
         IN Outcome(scheduleExpiry(s1, key, newExpiresAt, t), Bool(TRUE))

\* clear that empties both maps and leaves the timers in the queue
clear_noCancel(st) ==
    Outcome([st EXCEPT !.map = Empty,
                       !.order = <<>>,
                       !.timers = Empty,
                       !.cursor = 0],
            Void)

\* clear(): every handle of this.timers is cancelled and both maps are
\* emptied (a live iterator over this.map has nothing left before it).
clear(st) ==
    Outcome([st EXCEPT !.pending = [h \in DOMAIN @ \ Range(st.timers) |-> @[h]],
                       !.map = Empty,
                       !.order = <<>>,
                       !.timers = Empty,
                       !.cursor = 0],
            Void)

RECURSIVE EstimatedBytes(_, _)
\* The sum without the 32 bytes per record
EstimatedBytes_noOverhead(m, ks) ==
    IF ks = {} THEN 0
    ELSE LET k == CHOOSE x \in ks : TRUE
         IN Len(m[k].token) * 2 + EstimatedBytes(m, ks \ {k})

\* record.token.length * 2 + 32, summed over the records
EstimatedBytes(m, ks) ==
    IF ks = {} THEN 0
    ELSE LET k == CHOOSE x \in ks : TRUE
         IN Len(m[k].token) * 2 + 32 + EstimatedBytes(m, ks \ {k})

\* getStats()
getStats(st) ==
    Outcome(st, [kind |-> "stats",
                 size |-> Cardinality(DOMAIN st.map),
                 pendingCleanups |-> Cardinality(DOMAIN st.timers),
                 memoryUsage |-> EstimatedBytes(st.map, DOMAIN st.map)])

RECURSIVE keys(_, _, _)
\* The loop listing a record that is at its deadline (>= for >)
keys_liveAtDeadline(st, validKeys, t) ==
    IF st.cursor >= Len(st.order)
    THEN [st |-> [st EXCEPT !.cursor = 0], ret |-> KeyList(validKeys), done |-> TRUE]
    ELSE LET key == st.order[st.cursor + 1]
         IN IF st.map[key].expiresAt >= t
            THEN keys([st EXCEPT !.cursor = @ + 1], Append(validKeys, key), t)
            ELSE [st |-> delete(st, key).st, ret |-> KeyList(validKeys),
                  done |-> FALSE]

\* The loop of keys() from the iterator's position up to its next await
\* (after the delete of an expired record) or to its return; t is the clock
\* value keys() read when it was called.  done tells which of the two.
keys(st, validKeys, t) ==
    IF st.cursor >= Len(st.order)
    THEN [st |-> [st EXCEPT !.cursor = 0], ret |-> KeyList(validKeys), done |-> TRUE]
    ELSE LET key == st.order[st.cursor + 1]
         IN IF st.map[key].expiresAt > t
            THEN keys([st EXCEPT !.cursor = @ + 1], Append(validKeys, key), t)
            ELSE [st |-> delete(st, key).st, ret |-> KeyList(validKeys),
                  done |-> FALSE]

\* The count of timers per key after a step that leaves the store st: a
\* key whose handle is the one it had has had no timer scheduled; a new
\* handle is the first timer of a set or an updateTtl (fresh) or the next
\* segment scheduled by the callback.
Chain(st, fresh) ==
    [k \in DOMAIN st.timers |->
        IF k \in DOMAIN timers /\ st.timers[k] = timers[k] THEN segments[k]
        ELSE IF fresh
             THEN [n |-> 1, lifetime |-> st.map[k].expiresAt - now]
             ELSE [n |-> segments[k].n + 1, lifetime |-> segments[k].lifetime]]

\* A timer handle is an opaque object: the code compares and stores it, and
\* only which handle belongs to which key matters.  A store in which every
\* record has its own handle and the queue holds these handles and no other
\* is kept with the handle of the i-th key of this.map named i.
Named(st) ==
    IF /\ DOMAIN st.timers = DOMAIN st.map
       /\ DOMAIN st.pending = Range(st.timers)
       /\ Cardinality(Range(st.timers)) = Cardinality(DOMAIN st.timers)
    THEN [st EXCEPT
             !.timers = [k \in DOMAIN st.timers |-> IndexOf(st.order, k)],
             !.pending = [h \in 1..Len(st.order) |->
                             st.pending[st.timers[st.order[h]]]]]
    ELSE st

\* Writes the store a call (fresh) or a timer callback leaves back to the
\* variables
CommitAs(st, fresh) ==
    /\ map' = st.map
    /\ order' = st.order
    /\ timers' = Named(st).timers
    /\ pending' = Named(st).pending
    /\ scan' = [scan EXCEPT !.cursor = st.cursor]
    /\ segments' = Chain(st, fresh)

\* Writes the store a call leaves back to the variables
Commit(st) == CommitAs(st, TRUE)

\* Writes back the store a stretch of keys() leaves, with the scan's state
CommitScan(r, t, atCall) ==
    /\ map' = r.st.map
    /\ order' = r.st.order
    /\ timers' = Named(r.st).timers
    /\ pending' = Named(r.st).pending
    /\ segments' = Chain(r.st, TRUE)
    /\ scan' = IF r.done THEN NoScan
               ELSE [active |-> TRUE, now |-> t, cursor |-> r.st.cursor,
                     validKeys |-> r.ret.ks, atCall |-> atCall]

----------------------------------------------------------------------------
\* The constructor

Init ==
    /\ map = Empty
    /\ order = <<>>
    /\ timers = Empty
    /\ pending = Empty
    /\ now = 0
    /\ segments = Empty
    /\ \E options \in StoreOptions :
          /\ maxSize = options.maxSize
          /\ defaultTtl = IF options.defaultTtl = 0 THEN DEFAULT_TTL
                          ELSE options.defaultTtl
    /\ scan = NoScan

----------------------------------------------------------------------------
\* Calls of the public methods

Set(key, token, ttlSeconds) ==
    /\ Commit(set(Store, key, token, ttlSeconds, now).st)
    /\ UNCHANGED <<now, maxSize, defaultTtl>>

Get(key) ==
    /\ Commit(get(Store, key, now).st)
    /\ UNCHANGED <<now, maxSize, defaultTtl>>

Delete(key) ==
    /\ Commit(delete(Store, key).st)
    /\ UNCHANGED <<now, maxSize, defaultTtl>>

Has(key) ==
    /\ Commit(has(Store, key, now).st)
    /\ UNCHANGED <<now, maxSize, defaultTtl>>

GetMetadata(key) ==
    /\ Commit(getMetadata(Store, key, now).st)
    /\ UNCHANGED <<now, maxSize, defaultTtl>>

GetTtl(key) ==
    /\ Commit(getTtl(Store, key, now).st)
    /\ UNCHANGED <<now, maxSize, defaultTtl>>

UpdateTtl(key, ttlSeconds) ==
    /\ Commit(updateTtl(Store, key, ttlSeconds, now).st)
    /\ UNCHANGED <<now, maxSize, defaultTtl>>

Clear ==
    /\ Commit(clear(Store).st)
    /\ UNCHANGED <<now, maxSize, defaultTtl>>

GetStats ==
    /\ Commit(getStats(Store).st)
    /\ UNCHANGED <<now, maxSize, defaultTtl>>

\* keys() is called: it runs up to its first await or to its return
KeysCall ==
    /\ ~scan.active
    /\ LET live(k) == map[k].expiresAt > now
       IN CommitScan(keys(Store, <<>>, now), now, SelectSeq(order, live))
    /\ UNCHANGED <<now, maxSize, defaultTtl>>

\* the suspended keys() is resumed by the microtask of its await
KeysResume ==
    /\ scan.active
    /\ CommitScan(keys(Store, scan.validKeys, scan.now), scan.now, scan.atCall)
    /\ UNCHANGED <<now, maxSize, defaultTtl>>

----------------------------------------------------------------------------
\* The environment: the clock and the timer queue

\* The instants the model lets the clock stop at: the deadline of a record
\* and the due time of a timer.
Instants ==
    {map[k].expiresAt : k \in DOMAIN map}
    \cup {pending[h].due : h \in DOMAIN pending}

Tick ==
    /\ \E t \in Instants : t > now /\ t <= MaxNow /\ now' = t
    /\ UNCHANGED <<map, order, timers, pending, maxSize, defaultTtl, scan,
                   segments>>

\* A timer that is due fires and its callback runs as a macrotask, so not
\* while a keys() call awaits.
TimerFire(h) ==
    /\ ~scan.active
    /\ h \in DOMAIN pending
    /\ pending[h].due <= now
    /\ CommitAs(timerCallback(Store, h, now), FALSE)
    /\ UNCHANGED <<now, maxSize, defaultTtl>>

\* One step of the system, the callers storing tokens of the set tokens
NextOf(tokens) ==
    \/ \E key \in Keys, token \in tokens, ttlSeconds \in SetTtlArgs :
          Set(key, token, ttlSeconds)
    \/ \E key \in Keys : Get(key)
    \/ \E key \in Keys : Delete(key)
    \/ \E key \in Keys : Has(key)
    \/ \E key \in Keys : GetMetadata(key)
    \/ \E key \in Keys : GetTtl(key)
    \/ \E key \in Keys, ttlSeconds \in TtlArgs : UpdateTtl(key, ttlSeconds)
    \/ Clear
    \/ GetStats
    \/ KeysCall
    \/ KeysResume
    \/ Tick
    \/ \E h \in DOMAIN pending : TimerFire(h)

Next == NextOf(Tokens)

Spec == Init /\ [][Next]_vars

\* The event loop runs every timer that is due and every microtask: a due
\* timer eventually fires, a suspended keys() is eventually resumed.  The
\* callers are under no obligation to call anything.  Reclamation does not
\* read the tokens, so one token value is stored here.
Handles == 1..(Cardinality(Keys) + 1)
LiveNext == NextOf({"a"})
LiveSpec ==
    /\ Init
    /\ [][LiveNext]_vars
    /\ \A h \in Handles : WF_vars(TimerFire(h))
    /\ WF_vars(KeysResume)

----------------------------------------------------------------------------
\* Properties

Live(k) == k \in DOMAIN map /\ map[k].expiresAt > now
Stale(k) == k \in DOMAIN map /\ map[k].expiresAt <= now
\* the timers of the runtime's queue whose callback is for key k
PendingFor(st, k) == {h \in DOMAIN st.pending : st.pending[h].key = k}
\* a timer that may fire now
Due(h) == h \in DOMAIN pending /\ pending[h].due <= now /\ ~scan.active

\* C1: get(k) returns the record's value exactly when this.map holds a
\* record of k with expiresAt > now; with no record, or with expiresAt <= now
\* (the timer fired or not), it returns null and has(k) returns false.
C1_GetOnlyLive ==
    \A k \in Keys :
        LET r == get(Store, k, now)
        IN /\ Live(k) => r.ret = Str(map[k].token)
           /\ ~Live(k) => r.ret = Null /\ has(Store, k, now).ret = Bool(FALSE)

\* C1 witness: the deadline is reached, the record and its timer are still
\* there, and get answers null, has answers false.
C1_Witness ==
    \E k \in Keys :
        /\ Stale(k)
        /\ map[k].expiresAt = now
        /\ k \in DOMAIN timers /\ timers[k] \in DOMAIN pending
        /\ get(Store, k, now).ret = Null
        /\ has(Store, k, now).ret = Bool(FALSE)

\* C2: a timer that fires removes the record of its key only if the stored
\* expiresAt <= now; while now < expiresAt the callback leaves the record as
\* it is and get(k) still returns the value, also for lifetimes of several
\* segments and after set/updateTtl.
C2_NoEarlyReclaim ==
    \A h \in DOMAIN pending :
        Due(h) =>
            LET k == pending[h].key
                after == timerCallback(Store, h, now)
            IN /\ (k \in DOMAIN map /\ k \notin DOMAIN after.map) => map[k].expiresAt <= now
               /\ Live(k) => /\ k \in DOMAIN after.map
                             /\ after.map[k] = map[k]
                             /\ get(after, k, now).ret = Str(map[k].token)

\* C2 witness: a segment of a lifetime longer than MAX_TIMEOUT_MS is due
\* before the deadline, and its callback keeps the record.
C2_Witness ==
    \E h \in DOMAIN pending :
        /\ Due(h)
        /\ Live(pending[h].key)
        /\ map[pending[h].key].expiresAt - map[pending[h].key].createdAt > MAX_TIMEOUT_MS
        /\ pending[h].key \in DOMAIN timerCallback(Store, h, now).map

\* C3: in any reachable state, a set(k, v, t) with t > 0 that does not throw,
\* followed at once by get(k), gives v.
C3_RoundTrip ==
    \A k \in Keys, v \in Tokens, t \in TtlArgs :
        t > 0 =>
            LET r == set(Store, k, v, <<t>>, now)
            IN r.ret = Void => get(r.st, k, now).ret = Str(v)

\* C3 witness: k holds another value, set succeeds and get gives the new one.
C3_Witness ==
    \E k \in Keys, v \in Tokens, t \in TtlArgs :
        /\ t > 0
        /\ Live(k) /\ map[k].token # v
        /\ set(Store, k, v, <<t>>, now).ret = Void
        /\ get(set(Store, k, v, <<t>>, now).st, k, now).ret = Str(v)

\* keys() run from its call to its return with nothing else in between
RECURSIVE keysToReturn(_, _, _)
keysToReturn(st, validKeys, t) ==
    LET r == keys(st, validKeys, t)
    IN IF r.done THEN r ELSE keysToReturn(r.st, r.ret.ks, t)

\* C4: once a record is logically expired, no later get(k) returns it and no
\* later has(k) is true, whatever is called, as long as no set(k) is.
C4_ExpiredStaysUnreadable ==
    [][\A k \in Keys :
          (Stale(k) /\ ~(\E v \in Tokens, t \in SetTtlArgs : Set(k, v, t)))
              => (get(Store, k, now).ret = Null /\ has(Store, k, now).ret = Bool(FALSE))'
      ]_vars

\* C5: with the timers firing when due, a record whose deadline has passed
\* is eventually gone from this.map, and its handle from this.timers and its
\* timer from the queue, with no call reading the key (unless a set or an
\* updateTtl has given the key a deadline in the future).
Reclaimed(k) ==
    /\ k \notin DOMAIN map
    /\ k \notin DOMAIN timers
    /\ PendingFor(Store, k) = {}
C5_EventuallyReclaimed ==
    \A k \in Keys : Stale(k) ~> (Reclaimed(k) \/ Live(k))

\* C5 witness: the deadline of a lifetime longer than MAX_TIMEOUT_MS has
\* passed, the last segment's timer is due, and its callback removes the
\* record and the handle.
C5_Witness ==
    \E k \in Keys :
        /\ Stale(k)
        /\ map[k].expiresAt - map[k].createdAt > MAX_TIMEOUT_MS
        /\ k \in DOMAIN timers /\ Due(timers[k])
        /\ LET after == timerCallback(Store, timers[k], now)
           IN /\ k \notin DOMAIN after.map
              /\ k \notin DOMAIN after.timers
              /\ PendingFor(after, k) = {}

\* C6: between operations, the keys of this.timers are the keys of this.map,
\* every handle is a pending timer of its key, no key has a second pending
\* timer, and getStats reports size = pendingCleanups.
C6_HandlePerRecord ==
    /\ DOMAIN timers = DOMAIN map
    /\ \A k \in DOMAIN timers : PendingFor(Store, k) = {timers[k]}
    /\ \A k \in Keys \ DOMAIN timers : PendingFor(Store, k) = {}
    /\ getStats(Store).ret.size = getStats(Store).ret.pendingCleanups

\* C6 witness: two records with one handle each, after the clock has moved.
C6_Witness ==
    /\ Cardinality(DOMAIN map) = 2
    /\ Cardinality(Range(timers)) = 2
    /\ getStats(Store).ret.size = 2
    /\ getStats(Store).ret.pendingCleanups = 2
    /\ now > 0

\* C7: this.map never holds more than maxSize records.
C7_SizeWithinLimit == Cardinality(DOMAIN map) <= maxSize

\* C7 witness: the store is full and a set of a further key is refused.
C7_Witness ==
    /\ Cardinality(DOMAIN map) = maxSize
    /\ \E k \in Keys \ DOMAIN map, v \in Tokens :
          /\ set(Store, k, v, <<1>>, now).ret = Thrown
          /\ set(Store, k, v, <<1>>, now).st = Store

\* C8: set throws exactly when the key has no record and this.map already
\* holds maxSize records, expired ones included; a set of a key that has a
\* record never throws.
C8_ThrowsIffNewAndFull ==
    \A k \in Keys, v \in Tokens, t \in SetTtlArgs :
        set(Store, k, v, t, now).ret = Thrown
            <=> (k \notin DOMAIN map /\ Cardinality(DOMAIN map) = maxSize)

\* C8 witness: the store is full of expired records that are not yet
\* reclaimed; a new key is refused and a key that has a record is accepted.
C8_Witness ==
    /\ Cardinality(DOMAIN map) = maxSize
    /\ \A k \in DOMAIN map : Stale(k)
    /\ \E k \in Keys \ DOMAIN map : set(Store, k, "a", <<1>>, now).ret = Thrown
    /\ \E k \in DOMAIN map : set(Store, k, "a", <<1>>, now).ret = Void

\* C9: get, has, getMetadata, getTtl and keys, run on a key whose record has
\* expiresAt <= now, leave neither a record nor a handle nor a pending timer
\* for that key.
Gone(st, k) ==
    /\ k \notin DOMAIN st.map
    /\ k \notin DOMAIN st.timers
    /\ PendingFor(st, k) = {}
C9_ReadsDestroyStale ==
    \A k \in Keys :
        Stale(k) =>
            /\ Gone(get(Store, k, now).st, k)
            /\ Gone(has(Store, k, now).st, k)
            /\ Gone(getMetadata(Store, k, now).st, k)
            /\ Gone(getTtl(Store, k, now).st, k)
            /\ ~scan.active => Gone(keysToReturn(Store, <<>>, now).st, k)

\* C9 witness: an expired record whose timer has not fired, and a read that
\* removes the record together with that timer.
C9_Witness ==
    \E k \in Keys :
        /\ Stale(k)
        /\ ~scan.active
        /\ PendingFor(Store, k) # {}
        /\ Gone(getTtl(Store, k, now).st, k)
        /\ Gone(keysToReturn(Store, <<>>, now).st, k)

\* C10: updateTtl(k, t) with t > 0 on a live record returns true, sets
\* expiresAt to now + t * 1000, keeps token and createdAt, cancels the key's
\* timer and schedules one for the new deadline; getTtl(k) then returns t.
C10_UpdateTtl ==
    \A k \in Keys, t \in TtlArgs :
        (Live(k) /\ t > 0) =>
            LET r == updateTtl(Store, k, t, now)
            IN /\ r.ret = Bool(TRUE)
               /\ r.st.map[k] = TokenRecord(map[k].token, now + t * 1000,
                                            map[k].createdAt)
               /\ timers[k] \notin DOMAIN r.st.pending
               /\ PendingFor(r.st, k) = {r.st.timers[k]}
               /\ r.st.pending[r.st.timers[k]].due
                      = now + Min(t * 1000, MAX_TIMEOUT_MS)
               /\ getTtl(r.st, k, now).ret = Num(t)

\* C10 witness: a record created earlier, with less time left than the new
\* lifetime, is extended.
C10_Witness ==
    \E k \in Keys, t \in TtlArgs :
        /\ t > 0
        /\ Live(k)
        /\ map[k].createdAt < now
        /\ map[k].expiresAt < now + t * 1000
        /\ updateTtl(Store, k, t, now).ret = Bool(TRUE)
        /\ updateTtl(Store, k, t, now).st.map[k].createdAt = map[k].createdAt
        /\ getTtl(updateTtl(Store, k, t, now).st, k, now).ret = Num(t)

\* C11: updateTtl(k, t) on a record that has expired (expiresAt <= now) and
\* is still in this.map returns false, as for a missing key, and the key is
\* not readable afterwards.
C11_ExpiredNotExtended ==
    \A k \in Keys, t \in TtlArgs :
        Stale(k) =>
            LET r == updateTtl(Store, k, t, now)
            IN /\ r.ret = Bool(FALSE)
               /\ get(r.st, k, now).ret = Null
               /\ has(r.st, k, now).ret = Bool(FALSE)

\* C12: updateTtl on a key that has no record returns false and leaves
\* this.map, this.timers and the timer queue as they are: no record, no
\* handle and no timer for the key.
C12_MissingNotExtended ==
    \A k \in Keys \ DOMAIN map, t \in TtlArgs :
        LET r == updateTtl(Store, k, t, now)
        IN /\ r.ret = Bool(FALSE)
           /\ r.st = Store
           /\ Gone(r.st, k)

\* C12 witness: a key whose record has been removed, beside a key that has
\* one; updateTtl answers false for the first and changes nothing.
C12_Witness ==
    \E k \in Keys \ DOMAIN map :
        /\ now > 0
        /\ DOMAIN map # {}
        /\ updateTtl(Store, k, 1, now).ret = Bool(FALSE)
        /\ updateTtl(Store, k, 1, now).st = Store

\* C13: delete(k) returns true exactly when this.map held a record of k,
\* expired or not; after it there is no record and no handle of k, the timer
\* of k is cancelled, and get(k) returns null.  On a key with no record it
\* returns false and changes nothing.
C13_Delete ==
    \A k \in Keys :
        LET r == delete(Store, k)
        IN /\ r.ret = Bool(k \in DOMAIN map)
           /\ Gone(r.st, k)
           /\ k \in DOMAIN timers => timers[k] \notin DOMAIN r.st.pending
           /\ get(r.st, k, now).ret = Null
           /\ k \notin DOMAIN map => r.st = Store

\* C13 witness: an expired record whose timer is still pending is deleted
\* (true, timer cancelled), and the delete of a key with no record is false
\* and leaves the store as it is.
C13_Witness ==
    \E k \in Keys, k2 \in Keys \ DOMAIN map :
        /\ Stale(k)
        /\ timers[k] \in DOMAIN pending
        /\ delete(Store, k).ret = Bool(TRUE)
        /\ Gone(delete(Store, k).st, k)
        /\ delete(Store, k2).ret = Bool(FALSE)
        /\ delete(Store, k2).st = Store

\* C14: clear(), from any reachable state, cancels every pending timer and
\* leaves this.map and this.timers empty: getStats reports size 0 and
\* pendingCleanups 0, every get returns null, no timer scheduled before the
\* clear is left to fire, and a second clear changes nothing more.
C14_Clear ==
    LET r == clear(Store)
    IN /\ r.ret = Void
       /\ r.st.map = Empty
       /\ r.st.timers = Empty
       /\ r.st.pending = Empty
       /\ getStats(r.st).ret.size = 0
       /\ getStats(r.st).ret.pendingCleanups = 0
       /\ \A k \in Keys : get(r.st, k, now).ret = Null
       /\ clear(r.st) = r

\* C14 witness: two records, one of them expired, each with a pending timer,
\* and clear leaves nothing.
C14_Witness ==
    /\ Cardinality(DOMAIN map) = 2
    /\ Cardinality(DOMAIN pending) = 2
    /\ \E k \in Keys : Stale(k)
    /\ \E k \in Keys : Live(k)
    /\ clear(Store).st.map = Empty
    /\ clear(Store).st.pending = Empty

\* C15: getTtl(k) returns null when k has no record or expiresAt - now <= 0;
\* otherwise it returns the integer n >= 1 with
\* (n - 1) * 1000 < expiresAt - now <= n * 1000, the remaining time in
\* seconds rounded up.
C15_GetTtl ==
    \A k \in Keys :
        LET r == getTtl(Store, k, now)
        IN IF k \notin DOMAIN map \/ map[k].expiresAt - now <= 0
           THEN r.ret = Null
           ELSE /\ r.ret.kind = "number"
                /\ r.ret.n \in Nat
                /\ r.ret.n >= 1
                /\ (r.ret.n - 1) * 1000 < map[k].expiresAt - now
                /\ map[k].expiresAt - now <= r.ret.n * 1000

\* C15 witness: the time left is not a whole number of seconds, and getTtl
\* rounds it up; another key has no record and getTtl gives null.
C15_Witness ==
    \E k \in Keys, k2 \in Keys \ DOMAIN map :
        /\ Live(k)
        /\ (map[k].expiresAt - now) % 1000 # 0
        /\ getTtl(Store, k, now).ret = Num((map[k].expiresAt - now) \div 1000 + 1)
        /\ getTtl(Store, k2, now).ret = Null

\* C16: keys(), with no other call made while it runs, returns exactly the
\* keys whose record has expiresAt > now, each once, and when it returns
\* this.map holds no record with expiresAt <= now and this.timers no handle
\* of such a key.
C16_KeysAlone ==
    ~scan.active =>
        LET r == keysToReturn(Store, <<>>, now)
            ks == r.ret.ks
        IN /\ {ks[i] : i \in 1..Len(ks)} = {k \in Keys : Live(k)}
           /\ \A i, j \in 1..Len(ks) : ks[i] = ks[j] => i = j
           /\ \A k \in DOMAIN r.st.map : r.st.map[k].expiresAt > now
           /\ \A k \in Keys : Stale(k) => Gone(r.st, k)
           /\ \A k \in Keys : Live(k) => r.st.map[k] = map[k]

\* C16 witness: an expired record stands before a live one in this.map, so
\* keys() suspends once; it returns the live key alone and the expired
\* record and its handle are gone.
C16_Witness ==
    /\ ~scan.active
    /\ Len(order) = 2
    /\ Stale(order[1])
    /\ Live(order[2])
    /\ ~keys(Store, <<>>, now).done
    /\ keysToReturn(Store, <<>>, now).ret = KeyList(<<order[2]>>)
    /\ Gone(keysToReturn(Store, <<>>, now).st, order[1])

\* C17: keys() is atomic: whatever is called between the call of keys() and
\* its return, the list it returns is the list of the keys that were live
\* in the state it was called in.
C17_KeysAtomic ==
    scan.active =>
        LET r == keys(Store, scan.validKeys, scan.now)
        IN r.done => r.ret = KeyList(scan.atCall)

\* a keys() that returns a key deleted and a key inserted while it awaited
C17_MixedResult ==
    /\ scan.active
    /\ scan.atCall = <<"k1">>
    /\ keys(Store, scan.validKeys, scan.now).done
    /\ keys(Store, scan.validKeys, scan.now).ret = KeyList(<<"k1", "k2">>)
    /\ DOMAIN map = {"k2"}

\* C18: calls issued together without awaiting one another act one at a
\* time in issue order, each changing this.map and this.timers in one step:
\* every state a call or a timer callback starts from (a suspended keys()
\* included) and every state between two calls of a batch has the handles
\* of exactly the keys that have a record, and two sets of distinct keys
\* issued together leave both keys live with their values.
Paired(st) ==
    /\ DOMAIN st.timers = DOMAIN st.map
    /\ \A k \in DOMAIN st.timers : st.timers[k] \in DOMAIN st.pending
C18_IssueOrder ==
    /\ Paired(Store)
    /\ \A k1 \in Keys, v1 \in Tokens, t1 \in TtlArgs, t2 \in TtlArgs :
          \A k2 \in Keys \ {k1}, v2 \in Tokens \ {v1} :
              (t1 > 0 /\ t2 > 0) =>
                  \A r1 \in {set(Store, k1, v1, <<t1>>, now)} :
                      \A r2 \in {set(r1.st, k2, v2, <<t2>>, now)} :
                          (r1.ret = Void /\ r2.ret = Void) =>
                              /\ Paired(r2.st)
                              /\ DOMAIN r2.st.map = {k1, k2}
                              /\ get(r2.st, k1, now).ret = Str(v1)
                              /\ get(r2.st, k2, now).ret = Str(v2)

\* C18 witness: while a keys() call is suspended and a timer is pending, two
\* sets of distinct keys are issued together and both keys are live after.
C18_Witness ==
    /\ scan.active
    /\ now > 0
    /\ DOMAIN pending # {}
    /\ \E k1 \in Keys, k2 \in Keys :
          /\ k1 # k2
          /\ k2 \notin DOMAIN map
          /\ LET r1 == set(Store, k1, "a", <<1>>, now)
                 r2 == set(r1.st, k2, "bb", <<2>>, now)
             IN /\ r1.ret = Void /\ r2.ret = Void
                /\ get(r2.st, k1, now).ret = Str("a")
                /\ get(r2.st, k2, now).ret = Str("bb")

\* C19: a set(k, v, t) that does not throw stores a fresh record: with t the
\* lifetime given, or the configured defaultTtl when none is given (3600 if
\* the store was constructed without one), the key is live after the set
\* when t > 0, and whenever the key is live its record is exactly
\* [v, expiresAt = now + t * 1000, createdAt = now], whatever record the key
\* had before, and getMetadata(k) returns that expiresAt and createdAt.
C19_SetStoresFresh ==
    /\ \E options \in StoreOptions :
          /\ maxSize = options.maxSize
          /\ defaultTtl = IF options.defaultTtl = 0 THEN 3600
                          ELSE options.defaultTtl
    /\ \A k \in Keys, v \in Tokens, ttlSeconds \in SetTtlArgs :
          LET t == IF ttlSeconds = Omitted THEN defaultTtl ELSE ttlSeconds[1]
          IN \A r \in {set(Store, k, v, ttlSeconds, now)} :
                 r.ret = Void =>
                     /\ t > 0 => k \in DOMAIN r.st.map
                     /\ k \in DOMAIN r.st.map =>
                            /\ r.st.map[k] = TokenRecord(v, now + t * 1000, now)
                            /\ getMetadata(r.st, k, now).ret
                                   = Meta(now + t * 1000, now)

\* C19 witness: a key with a record created earlier and another value is
\* set again with no lifetime given; the record is new, with the default
\* lifetime.
C19_Witness ==
    \E k \in Keys, v \in Tokens :
        /\ Live(k)
        /\ map[k].createdAt < now
        /\ map[k].token # v
        /\ set(Store, k, v, Omitted, now).ret = Void
        /\ set(Store, k, v, Omitted, now).st.map[k]
               = TokenRecord(v, now + defaultTtl * 1000, now)
        /\ getMetadata(set(Store, k, v, Omitted, now).st, k, now).ret
               = Meta(now + defaultTtl * 1000, now)

C21_NoTimerLeak ==
    /\ \A h \in DOMAIN pending :
          /\ pending[h].key \in DOMAIN timers
          /\ timers[pending[h].key] = h
    /\ \A k \in Keys : Cardinality(PendingFor(Store, k)) <= 1
    /\ \A k \in DOMAIN timers :
          LET old == timers[k]
              cancelled(r) == /\ old \notin DOMAIN r.st.pending
                              /\ Cardinality(PendingFor(r.st, k)) <= 1
          IN /\ \A v \in Tokens, t \in SetTtlArgs :
                   \A r \in {set(Store, k, v, t, now)} : cancelled(r)
             /\ \A t \in TtlArgs :
                   \A r \in {updateTtl(Store, k, t, now)} : cancelled(r)
             /\ cancelled(delete(Store, k))
             /\ cancelled(clear(Store))
             /\ Stale(k) => /\ cancelled(get(Store, k, now))
                             /\ cancelled(has(Store, k, now))
                             /\ cancelled(getMetadata(Store, k, now))
                             /\ cancelled(getTtl(Store, k, now))

\* C21 witness: a key whose timer is pending is set again; its old timer
\* has left the queue and one new timer is pending for it.
C21_Witness ==
    \E k \in DOMAIN timers :
        /\ now > 0
        /\ timers[k] \in DOMAIN pending
        /\ LET after == set(Store, k, "a", <<2>>, now).st
           IN /\ timers[k] \notin DOMAIN after.pending
              /\ PendingFor(after, k) = {after.timers[k]}

\* C22: last writer wins per key.  Whatever the key held before, a set or an
\* updateTtl leaves the record with the deadline that call computes and one
\* timer, scheduled by that call, for it (or nothing, for a deadline not in
\* the future), and a delete leaves nothing; the one timer pending for a
\* record is due no later than the stored deadline; and a timer that fires
\* never alters a record and removes only the record of its own key, and
\* only when the deadline now stored is reached.
Decided(st, k, expiresAt) ==
    IF expiresAt > now
    THEN /\ k \in DOMAIN st.map
         /\ st.map[k].expiresAt = expiresAt
         /\ PendingFor(st, k) = {st.timers[k]}
         /\ st.pending[st.timers[k]].due = now + Min(expiresAt - now, MAX_TIMEOUT_MS)
    ELSE Gone(st, k)
C22_LastWriterWins ==
    /\ \A k \in Keys :
          /\ \A v \in Tokens, t \in SetTtlArgs :
                 LET ttl == IF t = Omitted THEN defaultTtl ELSE t[1]
                 IN \A r \in {set(Store, k, v, t, now)} :
                        r.ret = Void => Decided(r.st, k, now + ttl * 1000)
          /\ k \in DOMAIN map =>
                 \A t \in TtlArgs :
                     \A r \in {updateTtl(Store, k, t, now)} :
                         Decided(r.st, k, now + t * 1000)
          /\ Gone(delete(Store, k).st, k)
          /\ k \in DOMAIN map =>
                 /\ PendingFor(Store, k) = {timers[k]}
                 /\ pending[timers[k]].due <= map[k].expiresAt
    /\ \A h \in DOMAIN pending :
          Due(h) =>
              LET after == timerCallback(Store, h, now)
              IN \A k \in DOMAIN map :
                     \/ k \in DOMAIN after.map /\ after.map[k] = map[k]
                     \/ /\ k = pending[h].key
                        /\ map[k].expiresAt <= now
                        /\ k \notin DOMAIN after.map

\* C22 witness: a record set earlier with a later deadline is given a
\* shorter lifetime by updateTtl: the stored deadline is the new one, the
\* old timer has left the queue and the one timer is due at the new
\* deadline.
C22_Witness ==
    \E k \in Keys :
        /\ Live(k)
        /\ map[k].createdAt < now
        /\ map[k].expiresAt > now + 1000
        /\ LET after == updateTtl(Store, k, 1, now).st
           IN /\ after.map[k].expiresAt = now + 1000
              /\ timers[k] \notin DOMAIN after.pending
              /\ PendingFor(after, k) = {after.timers[k]}
              /\ after.pending[after.timers[k]].due = now + 1000

\* C23: every timer scheduleExpiry schedules has the delay
\* d = min(expiresAt - now, MAX_TIMEOUT_MS) with 0 < d <= MAX_TIMEOUT_MS: it
\* is never due after the record's expiresAt, and is due exactly at
\* expiresAt when the remaining time is at most MAX_TIMEOUT_MS.  With no
\* time remaining no timer is scheduled.
Deadlines ==
    {now + t * 1000 : t \in TtlArgs} \cup {now + defaultTtl * 1000}
        \cup {map[x].expiresAt : x \in DOMAIN map}
C23_DelayWithinMax ==
    /\ \A h \in DOMAIN pending :
          /\ pending[h].due - now <= MAX_TIMEOUT_MS
          /\ pending[h].key \in DOMAIN map
          /\ pending[h].due <= map[pending[h].key].expiresAt
    /\ \A k \in Keys :
          \A expiresAt \in Deadlines :
              \A st \in {scheduleExpiry(Store, k, expiresAt, now)} :
                 IF expiresAt - now <= 0
                 THEN PendingFor(st, k) = {}
                 ELSE LET d == st.pending[st.timers[k]].due - now
                      IN /\ 0 < d /\ d <= MAX_TIMEOUT_MS
                         /\ (d = expiresAt - now \/ d = MAX_TIMEOUT_MS)
                         /\ d <= expiresAt - now
                         /\ expiresAt - now <= MAX_TIMEOUT_MS => now + d = expiresAt

\* C23 witness: the first segment of a lifetime longer than MAX_TIMEOUT_MS
\* is due and the callback schedules the rest, due at expiresAt; and a
\* timer scheduled now for that lifetime has the delay MAX_TIMEOUT_MS.
C23_Witness ==
    \E h \in DOMAIN pending :
        LET k == pending[h].key
        IN /\ Due(h)
           /\ Live(k)
           /\ pending[h].due < map[k].expiresAt
           /\ LET st == timerCallback(Store, h, now)
              IN st.pending[st.timers[k]].due = map[k].expiresAt
           /\ LET st == scheduleExpiry(Store, k, now + 2000, now)
              IN st.pending[st.timers[k]].due = now + MAX_TIMEOUT_MS

\* C24: for a set or an updateTtl that gives a key the lifetime L ms, with no
\* later set or updateTtl of the key, at most ceil(L / MAX_TIMEOUT_MS) timers
\* are scheduled for the key; a timer fires no earlier than it is due, and
\* when it fires it either removes the record (the deadline is reached) or
\* schedules the next segment, still within that number.
CeilDiv(a, b) == (a + b - 1) \div b
C24_SegmentsBounded ==
    /\ DOMAIN segments = DOMAIN timers
    /\ \A k \in DOMAIN segments :
          /\ segments[k].lifetime > 0
          /\ segments[k].n >= 1
          /\ segments[k].n <= CeilDiv(segments[k].lifetime, MAX_TIMEOUT_MS)
    /\ \A h \in DOMAIN pending :
          Due(h) =>
              LET k == pending[h].key
                  after == timerCallback(Store, h, now)
              IN /\ pending[h].due <= now
                 /\ IF map[k].expiresAt <= now
                    THEN Gone(after, k)
                    ELSE /\ PendingFor(after, k) = {after.timers[k]}
                         /\ after.timers[k] # h
                         /\ segments[k].n + 1
                                <= CeilDiv(segments[k].lifetime, MAX_TIMEOUT_MS)

\* C24 witness: a lifetime of two segments; the second timer, the last the
\* bound allows, is due at the deadline and its callback removes the record.
C24_Witness ==
    \E k \in DOMAIN segments :
        /\ segments[k].n = 2
        /\ CeilDiv(segments[k].lifetime, MAX_TIMEOUT_MS) = 2
        /\ Due(timers[k])
        /\ Stale(k)
        /\ Gone(timerCallback(Store, timers[k], now), k)

\* C25: when set throws the size limit error the store is what it was
\* before the call: no record added, replaced or evicted, no timer scheduled
\* or cancelled, and every key reads as before (value, deadline, remaining
\* time).
C25_ThrowChangesNothing ==
    \A k \in Keys, v \in Tokens, t \in SetTtlArgs :
        \A r \in {set(Store, k, v, t, now)} :
           r.ret = Thrown =>
               /\ r.st.map = map
               /\ r.st.order = order
               /\ r.st.timers = timers
               /\ r.st.pending = pending
               /\ \A k2 \in Keys :
                      /\ get(r.st, k2, now).ret = get(Store, k2, now).ret
                      /\ getMetadata(r.st, k2, now).ret = getMetadata(Store, k2, now).ret
                      /\ getTtl(r.st, k2, now).ret = getTtl(Store, k2, now).ret

\* C25 witness: the store is full with a live record whose timer is pending;
\* the set of another key throws and record and timer are as before.
C25_Witness ==
    \E k \in Keys, k2 \in Keys :
        /\ k # k2
        /\ Live(k2)
        /\ now > 0
        /\ timers[k2] \in DOMAIN pending
        /\ set(Store, k, "bb", <<2>>, now).ret = Thrown
        /\ set(Store, k, "bb", <<2>>, now).st = Store
        /\ get(set(Store, k, "bb", <<2>>, now).st, k2, now).ret = Str(map[k2].token)

\* C26: a set(k, v, t) or an updateTtl(k, t) with t <= 0 (a 0 that is given
\* is not replaced by the default) leaves no record, no handle and no timer
\* for k, also when k held a live record: no timer is scheduled, set raises
\* no error for the lifetime (it throws only for the size limit),
\* updateTtl on a key that has a record returns true, and get(k) is null
\* afterwards.
C26_NonPositiveLifetime ==
    \A k \in Keys, t \in TtlArgs :
        t <= 0 =>
            /\ \A v \in Tokens : \A r \in {set(Store, k, v, <<t>>, now)} :
                  /\ r.ret = IF k \notin DOMAIN map
                                /\ Cardinality(DOMAIN map) >= maxSize
                             THEN Thrown ELSE Void
                  /\ Gone(r.st, k)
                  /\ DOMAIN r.st.pending \subseteq DOMAIN pending
                  /\ get(r.st, k, now).ret = Null
            /\ \A r \in {updateTtl(Store, k, t, now)} :
                  /\ r.ret = Bool(k \in DOMAIN map)
                  /\ Gone(r.st, k)
                  /\ DOMAIN r.st.pending \subseteq DOMAIN pending
                  /\ get(r.st, k, now).ret = Null

\* C26 witness: a live record with a pending timer; set with lifetime 0 and
\* updateTtl with lifetime -1 each leave nothing of it.
C26_Witness ==
    \E k \in Keys :
        /\ Live(k)
        /\ timers[k] \in DOMAIN pending
        /\ defaultTtl > 0
        /\ set(Store, k, "a", <<0>>, now).ret = Void
        /\ Gone(set(Store, k, "a", <<0>>, now).st, k)
        /\ updateTtl(Store, k, -1, now).ret = Bool(TRUE)
        /\ Gone(updateTtl(Store, k, -1, now).st, k)

C28_ReadsAgree ==
    \A k \in Keys :
        LET g == get(Store, k, now).ret # Null
            h == has(Store, k, now).ret = Bool(TRUE)
            m == getMetadata(Store, k, now).ret # Null
            t == getTtl(Store, k, now).ret # Null
        IN /\ g <=> h
           /\ h <=> m
           /\ m <=> t
           /\ ~scan.active =>
                  LET ks == keysToReturn(Store, <<>>, now).ret.ks
                  IN t <=> (\E i \in 1..Len(ks) : ks[i] = k)
           /\ (k \in DOMAIN map /\ map[k].expiresAt = now) => ~g

\* C28 witness: one record is at its deadline exactly and another is live;
\* the five reads take the first as expired and the second as live.
C28_Witness ==
    \E k \in Keys, k2 \in Keys :
        /\ ~scan.active
        /\ k \in DOMAIN map /\ map[k].expiresAt = now
        /\ Live(k2)
        /\ get(Store, k, now).ret = Null
        /\ has(Store, k, now).ret = Bool(FALSE)
        /\ getMetadata(Store, k, now).ret = Null
        /\ getTtl(Store, k, now).ret = Null
        /\ keysToReturn(Store, <<>>, now).ret = KeyList(<<k2>>)
        /\ has(Store, k2, now).ret = Bool(TRUE)
        /\ getTtl(Store, k2, now).ret # Null

\* C29: get, has, getMetadata and getTtl on a key whose record is live, and
\* on a key that has no record, leave this.map, this.timers and the timer
\* queue as they are: token, createdAt, expiresAt, handle and due time are
\* unchanged, so a read neither extends nor shortens a lifetime.
C29_ReadsChangeNothing ==
    \A k \in Keys :
        (Live(k) \/ k \notin DOMAIN map) =>
            /\ get(Store, k, now).st = Store
            /\ has(Store, k, now).st = Store
            /\ getMetadata(Store, k, now).st = Store
            /\ getTtl(Store, k, now).st = Store

\* C29 witness: a live record read some time after it was set, beside a key
\* that has no record; the four reads of either change nothing.
C29_Witness ==
    \E k \in Keys, k2 \in Keys \ DOMAIN map :
        /\ Live(k)
        /\ map[k].createdAt < now
        /\ pending[timers[k]].due > now
        /\ get(Store, k, now) = Outcome(Store, Str(map[k].token))
        /\ getTtl(Store, k, now).st = Store
        /\ get(Store, k2, now) = Outcome(Store, Null)
        /\ has(Store, k2, now) = Outcome(Store, Bool(FALSE))

\* C30: per-key independence.  set, get, has, getMetadata, getTtl, updateTtl
\* and delete on a key k, and the firing of k's timer, leave the record, the
\* handle and the timer of every other key as they are; keys() removes
\* expired records only.
Untouched(st, k) ==
    /\ k \in DOMAIN st.map <=> k \in DOMAIN map
    /\ k \in DOMAIN map => st.map[k] = map[k]
    /\ k \in DOMAIN st.timers <=> k \in DOMAIN timers
    /\ k \in DOMAIN timers => st.timers[k] = timers[k]
    /\ PendingFor(st, k) = PendingFor(Store, k)
    /\ \A h \in PendingFor(st, k) : st.pending[h] = pending[h]
C30_OtherKeysUntouched ==
    /\ \A k \in Keys :
          \A k2 \in Keys \ {k} :
              /\ \A v \in Tokens, t \in SetTtlArgs :
                     \A r \in {set(Store, k, v, t, now)} : Untouched(r.st, k2)
              /\ \A t \in TtlArgs :
                     \A r \in {updateTtl(Store, k, t, now)} : Untouched(r.st, k2)
              /\ Untouched(delete(Store, k).st, k2)
              /\ Untouched(get(Store, k, now).st, k2)
              /\ Untouched(has(Store, k, now).st, k2)
              /\ Untouched(getMetadata(Store, k, now).st, k2)
              /\ Untouched(getTtl(Store, k, now).st, k2)
    /\ \A h \in DOMAIN pending :
          Due(h) =>
              \A k2 \in Keys \ {pending[h].key} :
                  Untouched(timerCallback(Store, h, now), k2)
    /\ ~scan.active =>
          \A k \in Keys : Live(k) => Untouched(keysToReturn(Store, <<>>, now).st, k)

\* C30 witness: two records; the timer of the expired one is due and fires,
\* and the other key is set again: each leaves the other record and its
\* timer alone.
C30_Witness ==
    \E k \in Keys, k2 \in Keys :
        /\ k # k2
        /\ Stale(k) /\ Due(timers[k])
        /\ Live(k2) /\ timers[k2] \in DOMAIN pending
        /\ k \notin DOMAIN timerCallback(Store, timers[k], now).map
        /\ Untouched(timerCallback(Store, timers[k], now), k2)
        /\ Untouched(set(Store, k2, "bb", <<1>>, now).st, k)
        /\ Untouched(delete(Store, k).st, k2)

\* C31: a timer callback never runs for a key that has no record.  Every
\* timer in the queue belongs to a key that has a record and is the handle
\* this.timers holds for that key, so the callback of a firing timer finds
\* its record (the 'record absent' branch is never taken) and the only
\* handle it can remove from this.timers is its own, never one that a
\* newer set installed for the key.
C31_RecordAbsentUnreachable ==
    \A h \in DOMAIN pending :
        LET key == pending[h].key
        IN /\ key \in DOMAIN map
           /\ key \in DOMAIN timers /\ timers[key] = h
           /\ Due(h) =>
                 \A after \in {timerCallback(Store, h, now)} :
                     \/ key \notin DOMAIN after.timers
                     \/ /\ after.timers[key] \in DOMAIN after.pending
                        /\ key \in DOMAIN after.map

\* C31 witness: the timer of a record written after the clock had advanced
\* is due while another key has no record and no timer; the callback finds
\* the record, expired, and removes it together with its own handle.
C31_Witness ==
    \E h \in DOMAIN pending, k2 \in Keys :
        LET key == pending[h].key
        IN /\ Due(h)
           /\ k2 # key /\ k2 \notin DOMAIN map /\ k2 \notin DOMAIN timers
           /\ map[key].createdAt > 0
           /\ timers[key] = h
           /\ key \notin DOMAIN timerCallback(Store, h, now).map
           /\ key \notin DOMAIN timerCallback(Store, h, now).timers

====
